---- MODULE Spec2Model ----
(***************************************************************************)
(* Model of the two kubectl drivers of k8s-tooling:                        *)
(*   rerun_job.py    - fetch a Job, set image tag to latest, upsert an env *)
(*                     var, clean metadata, delete, apply, optionally poll *)
(*   sts_resizer.py  - fetch a StatefulSet, back it up, clean it, list its *)
(*                     pods, resize the PVC templates, confirm, delete     *)
(*                     with --cascade=false, apply                         *)
(* Strings the code inspects character by character (image, env values,    *)
(* prompt answers) are sequences of one-character strings. A mapping       *)
(* (python dict) is a function whose DOMAIN is the set of keys present.    *)
(***************************************************************************)
EXTENDS Integers, Sequences, FiniteSets, TLC

VARIABLES
    kind,             \* which script runs: "job" (rerun_job.py) or "sts" (sts_resizer.py)
    args,             \* parsed command line (argparse namespace)
    pc,               \* position of main()
    exit_code,        \* process exit status, NotExited while running
    outcome,          \* how the run ended
    manifest,         \* main(): manifest (job: mutated in place by update_job_manifest)
    cleaned_manifest, \* sts main(): cleaned_manifest
    new_pv_size,      \* sts main(): new_pv_size
    current_pods,     \* sts main(): current_pods
    confirm,          \* sts main(): confirm, None until the prompt is answered
    files,            \* backup files written (sequence of YAML documents)
    calls,            \* kubectl invocations issued so far, in order
    present,          \* cluster: the resource exists
    cluster_pods,     \* cluster: names of the pods labelled app=<name>
    churns,           \* number of pod changes the cluster made so far
    stdout,           \* what the run reported: manifest shown, pods reported
    clock,            \* time.time(), in seconds since the run started
    start_time,       \* check_job_status: start_time
    polls,            \* check_job_status: reads made, last status read, its time, classification
    error,            \* the error that ended the run, "" when none did
    results           \* values returned by a transform applied on its own, in order

vars == <<kind, args, pc, exit_code, outcome, manifest, cleaned_manifest,
          new_pv_size, current_pods, confirm, files, calls, present,
          cluster_pods, churns, stdout, clock, start_time, polls, error,
          results>>

----------------------------------------------------------------------------
(* Bounds of the model *)

MaxTimeout == 1        \* largest --timeout (minutes) tried
MaxChurn == 1          \* pod changes the cluster may make during one run
MaxCount == 1          \* largest succeeded/failed/active count a status read reports
ReadLatency == 5       \* seconds a slow status read takes
MaxImageLen == 3       \* longest generated image string
MaxValueLen == 3       \* longest generated env value
MaxTemplates == 2      \* most volume claim templates in a generated StatefulSet

----------------------------------------------------------------------------
(* Python string operations, on sequences of characters *)

Whitespace == {" ", "\t", "\n"}

\* c in s
InStr(c, s) == \E i \in 1..Len(s) : s[i] = c

RECURSIVE LStrip(_)
LStrip(s) == IF s # <<>> /\ Head(s) \in Whitespace THEN LStrip(Tail(s)) ELSE s

RECURSIVE RStrip(_)
RStrip(s) ==
    IF s # <<>> /\ s[Len(s)] \in Whitespace
    THEN RStrip(SubSeq(s, 1, Len(s) - 1))
    ELSE s

\* str.strip()
Strip(s) == RStrip(LStrip(s))

LowerChar(c) ==
    CASE c = "Y" -> "y"
      [] c = "E" -> "e"
      [] c = "S" -> "s"
      [] c = "N" -> "n"
      [] c = "O" -> "o"
      [] OTHER -> c

\* str.lower()
Lower(s) == [i \in 1..Len(s) |-> LowerChar(s[i])]

\* s.split(sep)[0]: the part of s before the first sep, all of s without one
RECURSIVE SplitHead(_, _)
SplitHead(s, sep) ==
    IF s = <<>> \/ Head(s) = sep THEN <<>>
    ELSE <<Head(s)>> \o SplitHead(Tail(s), sep)

\* str.split(): the maximal runs of non-whitespace characters
RECURSIVE SplitWs(_, _)
SplitWs(s, cur) ==
    IF s = <<>> THEN (IF cur = <<>> THEN <<>> ELSE <<cur>>)
    ELSE IF Head(s) \in Whitespace
         THEN (IF cur = <<>> THEN <<>> ELSE <<cur>>) \o SplitWs(Tail(s), <<>>)
         ELSE SplitWs(Tail(s), Append(cur, Head(s)))

Split(s) == SplitWs(s, <<>>)

\* x in list
InList(x, l) == \E i \in 1..Len(l) : l[i] = x

----------------------------------------------------------------------------
(* Python dict operations *)

Has(d, k) == k \in DOMAIN d

\* d.pop(k, None)
Pop(d, k) == [x \in DOMAIN d \ {k} |-> d[x]]

EmptyDict == [x \in {} |-> TRUE]

RECURSIVE PopAll(_, _)
PopAll(d, ks) ==
    IF ks = <<>> THEN d ELSE PopAll(Pop(d, Head(ks)), Tail(ks))

\* an optional command-line string: None, or the string given
None == [given |-> FALSE, val |-> <<>>]
Some(s) == [given |-> TRUE, val |-> s]

\* python truthiness of an optional string: neither None nor ""
Truthy(o) == o.given /\ o.val # <<>>

\* yaml.dump: the serialized document of a tree; yaml.safe_load reads it back
YamlDump(m) == [yaml |-> m]
YamlLoad(doc) == doc.yaml

LastApplied == "kubectl.kubernetes.io/last-applied-configuration"
Revision == "deployment.kubernetes.io/revision"
ChangeCause == "kubernetes.io/change-cause"

----------------------------------------------------------------------------
(* rerun_job.py: update_job_manifest *)

LatestTag == <<":", "l", "a", "t", "e", "s", "t">>

\* SetLatestTag cutting at the last colon instead of the first
SetLatestTag_LastColon(current_image) ==
    IF InStr(":", current_image)
    THEN SubSeq(current_image, 1,
                (CHOOSE i \in 1..Len(current_image) :
                    /\ current_image[i] = ":"
                    /\ \A j \in (i + 1)..Len(current_image) :
                          current_image[j] # ":") - 1) \o LatestTag
    ELSE current_image \o LatestTag

\* lines 67-74: the image with its tag set to latest
SetLatestTag(current_image) ==
    IF InStr(":", current_image)
    THEN SplitHead(current_image, ":") \o LatestTag
    ELSE current_image \o LatestTag

\* lines 82-85: index of the first entry named env_var_name, 0 when none is
FindEnvVar(env_vars, env_var_name) ==
    IF \E i \in 1..Len(env_vars) : env_vars[i].name = env_var_name
    THEN CHOOSE i \in 1..Len(env_vars) :
            /\ env_vars[i].name = env_var_name
            /\ \A j \in 1..(i - 1) : env_vars[j].name # env_var_name
    ELSE 0

\* MergeEnvValue appending without looking for the value among the tokens
MergeEnvValue_AlwaysAppends(current_value, env_var_value) ==
    IF InStr(" ", current_value)
    THEN current_value \o <<" ">> \o env_var_value
    ELSE env_var_value

\* lines 88-100: the new value of an existing entry
MergeEnvValue(current_value, env_var_value) ==
    IF InStr(" ", current_value)
    THEN IF ~InList(env_var_value, Split(current_value))
         THEN current_value \o <<" ">> \o env_var_value
         ELSE current_value
    ELSE env_var_value

\* UpsertEnv without the break: every entry of that name gets the new value
UpsertEnv_EveryMatch(container, env_var_name, env_var_value) ==
    LET env_vars == IF Has(container, "env") THEN container.env ELSE <<>>
        i == FindEnvVar(env_vars, env_var_name)
    IN  IF i # 0
        THEN IF ~Has(env_vars[i], "value")
             THEN [err |-> "KeyError", c |-> container]
             ELSE [err |-> "",
                   c |-> [container EXCEPT !.env =
                             [j \in 1..Len(@) |->
                                 IF @[j].name = env_var_name
                                 THEN [@[j] EXCEPT !.value =
                                          MergeEnvValue(@, env_var_value)]
                                 ELSE @[j]]]]
        ELSE IF ~Has(container, "env")
             THEN [err |-> "KeyError", c |-> container]
             ELSE [err |-> "",
                   c |-> [container EXCEPT !.env =
                             Append(@, [name |-> env_var_name,
                                        value |-> env_var_value])]]

\* lines 77-105 on the first container; err names the exception raised
UpsertEnv(container, env_var_name, env_var_value) ==
    LET env_vars == IF Has(container, "env") THEN container.env ELSE <<>>
        i == FindEnvVar(env_vars, env_var_name)
    IN  IF i # 0
        THEN IF ~Has(env_vars[i], "value")
             THEN [err |-> "KeyError", c |-> container]
             ELSE [err |-> "",
                   c |-> [container EXCEPT !.env[i].value =
                             MergeEnvValue(env_vars[i].value, env_var_value)]]
        ELSE IF ~Has(container, "env")
             THEN [err |-> "KeyError", c |-> container]
             ELSE [err |-> "",
                   c |-> [container EXCEPT !.env =
                             Append(@, [name |-> env_var_name,
                                        value |-> env_var_value])]]

\* manifest['spec']['template']['spec']['containers'] can be read
HasContainers(m) ==
    /\ Has(m, "spec")
    /\ Has(m.spec, "template")
    /\ Has(m.spec.template, "spec")
    /\ Has(m.spec.template.spec, "containers")

\* JobCleanup without the removal of the status section
JobCleanup_KeepsStatus(m) ==
    LET top == [m EXCEPT !.metadata =
                   PopAll(@, <<"creationTimestamp", "resourceVersion", "uid",
                               "generation", "labels">>)]
        tpl == [top EXCEPT !.spec.template.metadata = Pop(@, "labels")]
        sel == [tpl EXCEPT !.spec = Pop(@, "selector")]
        ann == IF Has(sel.metadata, "annotations")
               THEN [sel EXCEPT !.metadata.annotations = Pop(@, LastApplied)]
               ELSE sel
        after == IF ~Has(m, "metadata") THEN m
                 ELSE IF ~Has(m.spec.template, "metadata") THEN top
                 ELSE ann
    IN  [err |-> IF Has(m, "metadata") /\ ~Has(m.spec.template, "metadata")
                 THEN "KeyError" ELSE "",
         m |-> IF Has(m, "metadata") /\ ~Has(m.spec.template, "metadata")
               THEN top
               ELSE PopAll(after, <<"matchLabels", "selector">>)]

\* lines 108-129: the metadata clean-up, in place
JobCleanup(m) ==
    LET top == [m EXCEPT !.metadata =
                   PopAll(@, <<"creationTimestamp", "resourceVersion", "uid",
                               "generation", "labels">>)]
        tpl == [top EXCEPT !.spec.template.metadata = Pop(@, "labels")]
        sel == [tpl EXCEPT !.spec = Pop(@, "selector")]
        ann == IF Has(sel.metadata, "annotations")
               THEN [sel EXCEPT !.metadata.annotations = Pop(@, LastApplied)]
               ELSE sel
        after == IF ~Has(m, "metadata") THEN m
                 ELSE IF ~Has(m.spec.template, "metadata") THEN top
                 ELSE ann
    IN  [err |-> IF Has(m, "metadata") /\ ~Has(m.spec.template, "metadata")
                 THEN "KeyError" ELSE "",
         m |-> IF Has(m, "metadata") /\ ~Has(m.spec.template, "metadata")
               THEN top
               ELSE PopAll(after, <<"status", "matchLabels", "selector">>)]

\* update_job_manifest leaving an empty container list alone instead of raising
update_job_manifest_SkipsEmpty(m, env_var_name, env_var_value) ==
    IF ~HasContainers(m) THEN [err |-> "KeyError", m |-> m]
    ELSE IF m.spec.template.spec.containers = <<>>
    THEN JobCleanup(m)
    ELSE IF ~Has(m.spec.template.spec.containers[1], "image")
    THEN [err |-> "KeyError", m |-> m]
    ELSE
    LET m1 == [m EXCEPT !.spec.template.spec.containers[1].image =
                  SetLatestTag(@)]
        up == IF Truthy(env_var_name) /\ Truthy(env_var_value)
              THEN UpsertEnv(m1.spec.template.spec.containers[1],
                             env_var_name.val, env_var_value.val)
              ELSE [err |-> "", c |-> m1.spec.template.spec.containers[1]]
        m2 == [m1 EXCEPT !.spec.template.spec.containers[1] = up.c]
    IN  IF up.err # "" THEN [err |-> up.err, m |-> m2] ELSE JobCleanup(m2)

\* lines 55-130: the manifest as the call leaves it, and the exception raised
update_job_manifest(m, env_var_name, env_var_value) ==
    IF ~HasContainers(m) THEN [err |-> "KeyError", m |-> m]
    ELSE IF m.spec.template.spec.containers = <<>>
    THEN [err |-> "ValueError", m |-> m]
    ELSE IF ~Has(m.spec.template.spec.containers[1], "image")
    THEN [err |-> "KeyError", m |-> m]
    ELSE
    LET m1 == [m EXCEPT !.spec.template.spec.containers[1].image =
                  SetLatestTag(@)]
        up == IF Truthy(env_var_name) /\ Truthy(env_var_value)
              THEN UpsertEnv(m1.spec.template.spec.containers[1],
                             env_var_name.val, env_var_value.val)
              ELSE [err |-> "", c |-> m1.spec.template.spec.containers[1]]
        m2 == [m1 EXCEPT !.spec.template.spec.containers[1] = up.c]
    IN  IF up.err # "" THEN [err |-> up.err, m |-> m2] ELSE JobCleanup(m2)

----------------------------------------------------------------------------
(* sts_resizer.py: clean_manifest, update_persistent_volume_size *)

\* CleanAnnotations leaving an emptied annotations mapping in place
CleanAnnotations_KeepsEmpty(metadata) ==
    IF Has(metadata, "annotations")
    THEN [metadata EXCEPT !.annotations =
             PopAll(@, <<LastApplied, Revision, ChangeCause>>)]
    ELSE metadata

\* CleanAnnotations testing for an empty mapping before it removes the keys
CleanAnnotations_EmptyFirst(metadata) ==
    IF Has(metadata, "annotations")
    THEN IF DOMAIN metadata.annotations = {}
         THEN Pop(metadata, "annotations")
         ELSE [metadata EXCEPT !.annotations =
                  PopAll(@, <<LastApplied, Revision, ChangeCause>>)]
    ELSE metadata

\* lines 78-86 / 98-106: clean the annotations of one metadata mapping
CleanAnnotations(metadata) ==
    IF Has(metadata, "annotations")
    THEN LET annotations == PopAll(metadata.annotations,
                                   <<LastApplied, Revision, ChangeCause>>)
         IN  IF DOMAIN annotations = {}
             THEN Pop(metadata, "annotations")
             ELSE [metadata EXCEPT !.annotations = annotations]
    ELSE metadata

\* CleanMetadata leaving generation in place
CleanMetadata_KeepsGeneration(metadata) ==
    CleanAnnotations(PopAll(metadata,
        <<"creationTimestamp", "resourceVersion", "uid", "managedFields">>))

\* lines 71-86 / 91-106: clean one metadata mapping
CleanMetadata(metadata) ==
    CleanAnnotations(PopAll(metadata,
        <<"creationTimestamp", "resourceVersion", "uid", "generation",
          "managedFields">>))

\* clean_manifest taking replicas for one of the status-mirroring keys
clean_manifest_PopsReplicas(m) ==
    LET copy == YamlLoad(YamlDump(m))
        c1 == IF Has(copy, "metadata")
              THEN [copy EXCEPT !.metadata = CleanMetadata(@)]
              ELSE copy
        c2 == IF Has(c1, "spec") /\ Has(c1.spec, "template")
                 /\ Has(c1.spec.template, "metadata")
              THEN [c1 EXCEPT !.spec.template.metadata = CleanMetadata(@)]
              ELSE c1
        c3 == IF Has(c2, "spec")
              THEN [c2 EXCEPT !.spec =
                       PopAll(@, <<"replicas", "currentReplicas",
                                   "updatedReplicas", "readyReplicas",
                                   "availableReplicas", "observedGeneration",
                                   "collisionCount", "conditions">>)]
              ELSE c2
    IN  Pop(c3, "status")

\* lines 60-123: the cleaned copy; the argument is left as it was
clean_manifest(m) ==
    LET copy == YamlLoad(YamlDump(m))
        c1 == IF Has(copy, "metadata")
              THEN [copy EXCEPT !.metadata = CleanMetadata(@)]
              ELSE copy
        c2 == IF Has(c1, "spec") /\ Has(c1.spec, "template")
                 /\ Has(c1.spec.template, "metadata")
              THEN [c1 EXCEPT !.spec.template.metadata = CleanMetadata(@)]
              ELSE c1
        c3 == IF Has(c2, "spec")
              THEN [c2 EXCEPT !.spec =
                       PopAll(@, <<"currentReplicas", "updatedReplicas",
                                   "readyReplicas", "availableReplicas",
                                   "observedGeneration", "collisionCount",
                                   "conditions">>)]
              ELSE c2
    IN  Pop(c3, "status")

\* lines 138-143: one volume claim template with its storage request replaced
ResizeTemplate(template, new_size) ==
    IF /\ Has(template, "spec")
       /\ Has(template.spec, "resources")
       /\ Has(template.spec.resources, "requests")
       /\ Has(template.spec.resources.requests, "storage")
    THEN [template EXCEPT !.spec.resources.requests.storage = new_size]
    ELSE template

\* update_persistent_volume_size stopping after the first template
update_persistent_volume_size_FirstOnly(m, new_size) ==
    LET copy == YamlLoad(YamlDump(m))
    IN  IF Has(copy, "spec") /\ Has(copy.spec, "volumeClaimTemplates")
        THEN [copy EXCEPT !.spec.volumeClaimTemplates =
                 [i \in 1..Len(@) |->
                     IF i = 1 THEN ResizeTemplate(@[i], new_size) ELSE @[i]]]
        ELSE copy

\* lines 126-158: the resized copy; inline volumes are only reported
update_persistent_volume_size(m, new_size) ==
    LET copy == YamlLoad(YamlDump(m))
    IN  IF Has(copy, "spec") /\ Has(copy.spec, "volumeClaimTemplates")
        THEN [copy EXCEPT !.spec.volumeClaimTemplates =
                 [i \in 1..Len(@) |-> ResizeTemplate(@[i], new_size)]]
        ELSE copy

----------------------------------------------------------------------------
(* What the cluster can return and what the operator can type *)

ImgV1 == <<"i", "m", "g", ":", "v", "1">>
Img == <<"i", "m", "g">>

JobFull ==
    [apiVersion |-> "batch/v1", kind |-> "Job",
     metadata |->
        [name |-> "myjob", namespace |-> "ns", creationTimestamp |-> "t0",
         resourceVersion |-> "42", uid |-> "u-1", generation |-> 1,
         labels |-> [app |-> "myjob"],
         managedFields |-> <<[manager |-> "kubectl"]>>,
         annotations |-> (LastApplied :> "{}") @@ ("team" :> "data")],
     spec |->
        [backoffLimit |-> 3,
         selector |-> [matchLabels |-> [uid |-> "u-1"]],
         template |->
            [metadata |-> [creationTimestamp |-> "null",
                           labels |-> [jobname |-> "myjob"]],
             spec |->
                [restartPolicy |-> "Never",
                 containers |->
                    << [name |-> "main", image |-> ImgV1,
                        env |-> << [name |-> <<"X">>,
                                    value |-> <<"1", " ", "2">>] >>],
                       [name |-> "side", image |-> ImgV1,
                        env |-> << [name |-> <<"X">>, value |-> <<"9">>] >>]
                    >>]]],
     status |-> [succeeded |-> 1]]

\* a Job whose container list is empty
JobNoContainers ==
    [JobFull EXCEPT !.spec.template.spec.containers = <<>>]

\* a Job whose only container has an untagged image and no env key
JobBare ==
    [apiVersion |-> "batch/v1", kind |-> "Job",
     metadata |-> [name |-> "myjob", uid |-> "u-2"],
     spec |->
        [template |->
            [metadata |-> [labels |-> [jobname |-> "myjob"]],
             spec |-> [containers |-> << [name |-> "main", image |-> Img] >>]]]]

\* a Job whose pod template carries no metadata mapping
JobNoTemplateMetadata ==
    [JobBare EXCEPT !.spec.template = Pop(@, "metadata")]

JobManifests == {JobFull, JobNoContainers, JobBare, JobNoTemplateMetadata}

Claim(size) == [metadata |-> [name |-> "data"],
                spec |-> [resources |-> [requests |-> [storage |-> size]]]]

StsFull ==
    [apiVersion |-> "apps/v1", kind |-> "StatefulSet",
     metadata |->
        [name |-> "db", namespace |-> "ns", creationTimestamp |-> "t0",
         resourceVersion |-> "42", uid |-> "u-1", generation |-> 1,
         labels |-> [app |-> "db"],
         managedFields |-> <<[manager |-> "kubectl"]>>,
         annotations |-> (LastApplied :> "{}") @@ (ChangeCause :> "init")],
     spec |->
        [replicas |-> 2, currentReplicas |-> 2, collisionCount |-> 0,
         selector |-> [matchLabels |-> [app |-> "db"]],
         template |->
            [metadata |-> [creationTimestamp |-> "null",
                           labels |-> [app |-> "db"],
                           annotations |-> (Revision :> "3") @@ ("team" :> "data")],
             spec |->
                [containers |-> << [name |-> "main", image |-> ImgV1] >>,
                 volumes |-> << [name |-> "ext",
                                 persistentVolumeClaim |->
                                    [claimName |-> "shared"]] >>]],
         volumeClaimTemplates |->
            << Claim(<<"1", "G", "i">>), Claim(<<"5", "G", "i">>) >>],
     status |-> [readyReplicas |-> 2]]

\* a StatefulSet whose container list is empty
StsNoContainers ==
    [StsFull EXCEPT !.spec.template.spec.containers = <<>>]

\* a StatefulSet with no template metadata and no volume claim templates
StsBare ==
    [apiVersion |-> "apps/v1", kind |-> "StatefulSet",
     metadata |-> [name |-> "db"],
     spec |->
        [template |->
            [spec |-> [containers |-> << [name |-> "main", image |-> Img] >>]]]]

StsManifests == {StsFull, StsNoContainers, StsBare}

PodLists == {<<>>, <<"db-0">>, <<"db-0", "db-1">>}

\* the pods a Job owns
JobPods == <<"myjob-x">>

\* --env-var-name / --env-var-value: absent, empty, or a string
EnvNames == {None, Some(<<>>), Some(<<"X">>), Some(<<"Y">>)}
EnvValues == {None, Some(<<>>), Some(<<"3">>)}

NewSize == <<"2", "G", "i">>
PvSizes == {None, Some(<<>>), Some(NewSize)}

\* answers typed at the size prompt and at the confirmation prompt
SizeAnswers == {<<>>, <<" ">>, <<" ">> \o NewSize \o <<"\n">>}
ConfirmAnswers ==
    {<<"y", "e", "s">>, <<" ", "Y", "e", "s", " ">>, <<"Y", "E", "S">>,
     <<"y">>, <<"n", "o">>, <<>>, <<"y", "e", "s", "!">>}

Yes == <<"y", "e", "s">>

\* the status mapping of a status read: absent altogether, or the three counts
Statuses ==
    {EmptyDict} \cup
    [succeeded : 0..MaxCount, failed : 0..MaxCount, active : 0..MaxCount]

\* d.get(k, 0)
Get0(d, k) == IF Has(d, k) THEN d[k] ELSE 0

----------------------------------------------------------------------------
(* The run *)

NotExited == -1
PollInterval == 10     \* time.sleep(10)

\* run_kubectl_command: one kubectl invocation and whether it returned 0
Kubectl(op, cascade, ok) == [op |-> op, cascade |-> cascade, ok |-> ok]

\* the process ends: sys.exit(code), or main() returns (code 0)
Exit(code, how, err) ==
    /\ pc' = "done"
    /\ exit_code' = code
    /\ outcome' = how
    /\ error' = err

Continue(next) ==
    /\ pc' = next
    /\ UNCHANGED <<exit_code, outcome, error>>

Latencies == {0, ReadLatency}

ArgSpace(k) ==
    IF k = "job"
    THEN [dry_run : BOOLEAN, env_var_name : EnvNames, env_var_value : EnvValues,
          monitor : BOOLEAN, timeout : 0..MaxTimeout, new_pv_size : {None}]
    ELSE [dry_run : BOOLEAN, env_var_name : {None}, env_var_value : {None},
          monitor : {FALSE}, timeout : {0}, new_pv_size : PvSizes]

Init ==
    /\ kind \in {"job", "sts"}
    /\ args \in ArgSpace(kind)
    /\ pc = IF kind = "job" THEN "validate" ELSE "fetch"
    /\ exit_code = NotExited
    /\ outcome = "running"
    /\ error = ""
    /\ manifest = EmptyDict
    /\ cleaned_manifest = EmptyDict
    /\ new_pv_size = None
    /\ current_pods = <<>>
    /\ confirm = None
    /\ files = <<>>
    /\ calls = <<>>
    /\ present \in BOOLEAN
    /\ cluster_pods \in IF kind = "sts" THEN PodLists ELSE {JobPods}
    /\ churns = 0
    /\ stdout = [manifests |-> <<>>, pods |-> <<>>]
    /\ clock = 0
    /\ start_time = 0
    /\ polls = [reads |-> 0, last |-> EmptyDict, result |-> "none", at |-> 0]
    /\ results = <<>>

(* ---- rerun_job.py: main ---- *)

\* ValidateArgs rejecting a name without a value only
ValidateArgs_NameOnly ==
    /\ pc = "validate"
    /\ IF Truthy(args.env_var_name) /\ ~Truthy(args.env_var_value)
       THEN Exit(1, "fatal", "InvalidArguments")
       ELSE Continue("fetch")
    /\ UNCHANGED <<kind, args, manifest, cleaned_manifest, new_pv_size,
                   current_pods, confirm, files, calls, present, cluster_pods,
                   churns, stdout, clock, start_time, polls,
                   results>>

\* lines 204-210
ValidateArgs ==
    /\ pc = "validate"
    /\ IF \/ Truthy(args.env_var_name) /\ ~Truthy(args.env_var_value)
          \/ Truthy(args.env_var_value) /\ ~Truthy(args.env_var_name)
       THEN Exit(1, "fatal", "InvalidArguments")
       ELSE Continue("fetch")
    /\ UNCHANGED <<kind, args, manifest, cleaned_manifest, new_pv_size,
                   current_pods, confirm, files, calls, present, cluster_pods,
                   churns, stdout, clock, start_time, polls,
                   results>>

\* GetJobManifest trying again after a failed fetch
GetJobManifest_Retries ==
    /\ pc = "fetch" /\ kind = "job"
    /\ \/ /\ present
          /\ \E m \in JobManifests :
                /\ calls' = Append(calls, Kubectl("get", TRUE, TRUE) @@
                                          [body |-> YamlDump(m)])
                /\ manifest' = YamlLoad(YamlDump(m))
          /\ Continue("update")
       \/ /\ calls' = Append(calls, Kubectl("get", TRUE, FALSE))
          /\ UNCHANGED manifest
          /\ Continue("fetch")
    /\ UNCHANGED <<kind, args, cleaned_manifest, new_pv_size, current_pods,
                   confirm, files, present, cluster_pods, churns, stdout,
                   clock, start_time, polls,
                   results>>

\* line 224, get_job_manifest
GetJobManifest ==
    /\ pc = "fetch" /\ kind = "job"
    /\ \/ /\ present
          /\ \E m \in JobManifests :
                /\ calls' = Append(calls, Kubectl("get", TRUE, TRUE) @@
                                          [body |-> YamlDump(m)])
                /\ manifest' = YamlLoad(YamlDump(m))
          /\ Continue("update")
       \/ /\ calls' = Append(calls, Kubectl("get", TRUE, FALSE))
          /\ UNCHANGED manifest
          /\ Exit(1, "fatal", "RemoteCallFailure")
    /\ UNCHANGED <<kind, args, cleaned_manifest, new_pv_size, current_pods,
                   confirm, files, present, cluster_pods, churns, stdout,
                   clock, start_time, polls,
                   results>>

\* line 227, update_job_manifest: mutates manifest in place
UpdateJobManifest ==
    /\ pc = "update"
    /\ LET r == update_job_manifest(manifest, args.env_var_name,
                                    args.env_var_value)
       IN  /\ manifest' = r.m
           /\ IF r.err # ""
              THEN Exit(1, "fatal", r.err)
              ELSE Continue(IF args.dry_run THEN "dry_run" ELSE "delete")
    /\ UNCHANGED <<kind, args, cleaned_manifest, new_pv_size, current_pods,
                   confirm, files, calls, present, cluster_pods, churns,
                   stdout, clock, start_time, polls,
                   results>>

\* lines 229-233
JobDryRun ==
    /\ pc = "dry_run" /\ kind = "job"
    /\ stdout' = [stdout EXCEPT !.manifests = Append(@, YamlDump(manifest))]
    /\ Exit(0, "dry_run", "")
    /\ UNCHANGED <<kind, args, manifest, cleaned_manifest, new_pv_size,
                   current_pods, confirm, files, calls, present, cluster_pods,
                   churns, clock, start_time, polls,
                   results>>

\* DeleteJob going on to the apply after a failed delete
DeleteJob_IgnoresFailure ==
    /\ pc = "delete" /\ kind = "job"
    /\ \/ /\ present
          /\ calls' = Append(calls, Kubectl("delete", TRUE, TRUE))
          /\ present' = FALSE
          /\ cluster_pods' = <<>>
          /\ Continue("apply")
       \/ /\ calls' = Append(calls, Kubectl("delete", TRUE, FALSE))
          /\ UNCHANGED <<present, cluster_pods>>
          /\ Continue("apply")
    /\ UNCHANGED <<kind, args, manifest, cleaned_manifest, new_pv_size,
                   current_pods, confirm, files, churns, stdout, clock,
                   start_time, polls,
                   results>>

\* line 236, delete_job: kubectl delete job, cascading by default
DeleteJob ==
    /\ pc = "delete" /\ kind = "job"
    /\ \/ /\ present
          /\ calls' = Append(calls, Kubectl("delete", TRUE, TRUE))
          /\ present' = FALSE
          /\ cluster_pods' = <<>>
          /\ Continue("apply")
       \/ /\ calls' = Append(calls, Kubectl("delete", TRUE, FALSE))
          /\ UNCHANGED <<present, cluster_pods>>
          /\ Exit(1, "fatal", "RemoteCallFailure")
    /\ UNCHANGED <<kind, args, manifest, cleaned_manifest, new_pv_size,
                   current_pods, confirm, files, churns, stdout, clock,
                   start_time, polls,
                   results>>

\* ApplyJobManifest trying again after a failed apply
ApplyJobManifest_Retries ==
    /\ pc = "apply" /\ kind = "job"
    /\ \/ /\ calls' = Append(calls, Kubectl("apply", TRUE, TRUE) @@
                                    [body |-> YamlDump(manifest)])
          /\ present' = TRUE
          /\ \E d \in Latencies : clock' = clock + d
          /\ IF args.monitor
             THEN Continue("monitor")
             ELSE Exit(0, "success", "")
       \/ /\ calls' = Append(calls, Kubectl("apply", TRUE, FALSE) @@
                                    [body |-> YamlDump(manifest)])
          /\ UNCHANGED <<present, clock>>
          /\ Continue("apply")
       \/ \* the temporary file cannot be written: no kubectl run
          /\ UNCHANGED <<calls, present, clock>>
          /\ Exit(1, "fatal", "OSError")
    /\ UNCHANGED <<kind, args, manifest, cleaned_manifest, new_pv_size,
                   current_pods, confirm, files, cluster_pods, churns, stdout,
                   start_time, polls,
                   results>>

\* lines 239-245, apply_job_manifest
ApplyJobManifest ==
    /\ pc = "apply" /\ kind = "job"
    /\ \/ /\ calls' = Append(calls, Kubectl("apply", TRUE, TRUE) @@
                                    [body |-> YamlDump(manifest)])
          /\ present' = TRUE
          /\ \E d \in Latencies : clock' = clock + d
          /\ IF args.monitor
             THEN Continue("monitor")
             ELSE Exit(0, "success", "")
       \/ /\ calls' = Append(calls, Kubectl("apply", TRUE, FALSE) @@
                                    [body |-> YamlDump(manifest)])
          /\ UNCHANGED <<present, clock>>
          /\ Exit(1, "fatal", "RemoteCallFailure")
       \/ \* the temporary file cannot be written: no kubectl run
          /\ UNCHANGED <<calls, present, clock>>
          /\ Exit(1, "fatal", "OSError")
    /\ UNCHANGED <<kind, args, manifest, cleaned_manifest, new_pv_size,
                   current_pods, confirm, files, cluster_pods, churns, stdout,
                   start_time, polls,
                   results>>

(* ---- rerun_job.py: check_job_status ---- *)

\* lines 166-167
StartMonitor ==
    /\ pc = "monitor"
    /\ start_time' = clock
    /\ Continue("poll_check")
    /\ UNCHANGED <<kind, args, manifest, cleaned_manifest, new_pv_size,
                   current_pods, confirm, files, calls, present, cluster_pods,
                   churns, stdout, clock, polls,
                   results>>

\* PollCheck entering the loop while the elapsed time is <= the timeout
PollCheck_Inclusive ==
    /\ pc = "poll_check"
    /\ IF clock - start_time <= args.timeout * 60
       THEN /\ Continue("poll_read")
            /\ UNCHANGED polls
       ELSE /\ polls' = [polls EXCEPT !.result = "Inconclusive"]
            /\ Exit(0, "success", "")
    /\ UNCHANGED <<kind, args, manifest, cleaned_manifest, new_pv_size,
                   current_pods, confirm, files, calls, present, cluster_pods,
                   churns, stdout, clock, start_time,
                   results>>

\* line 169 and, when the loop ends, line 189
PollCheck ==
    /\ pc = "poll_check"
    /\ IF clock - start_time < args.timeout * 60
       THEN /\ Continue("poll_read")
            /\ UNCHANGED polls
       ELSE /\ polls' = [polls EXCEPT !.result = "Inconclusive"]
            /\ Exit(0, "success", "")
    /\ UNCHANGED <<kind, args, manifest, cleaned_manifest, new_pv_size,
                   current_pods, confirm, files, calls, present, cluster_pods,
                   churns, stdout, clock, start_time,
                   results>>

\* Classify not treating failed > 0 as terminal
Classify_IgnoresFailed(status) ==
    IF Get0(status, "succeeded") > 0 THEN "Completed"
    ELSE IF Get0(status, "failed") > 0 THEN "none"
    ELSE "none"

\* Classify testing the failed count before the succeeded count
Classify_FailedFirst(status) ==
    IF Get0(status, "failed") > 0 THEN "Failed"
    ELSE IF Get0(status, "succeeded") > 0 THEN "Completed"
    ELSE "none"

\* lines 180-185: the classification of one status read
Classify(status) ==
    IF Get0(status, "succeeded") > 0 THEN "Completed"
    ELSE IF Get0(status, "failed") > 0 THEN "Failed"
    ELSE "none"

\* lines 170-185
PollRead ==
    /\ pc = "poll_read"
    /\ \/ \E status \in Statuses, d \in Latencies :
            /\ calls' = Append(calls, Kubectl("get_status", TRUE, TRUE))
            /\ clock' = clock + d
            /\ polls' = [reads |-> polls.reads + 1, last |-> status,
                         result |-> Classify(status), at |-> clock]
            /\ IF Classify(status) # "none"
               THEN Exit(0, "success", "")
               ELSE Continue("poll_sleep")
       \/ /\ calls' = Append(calls, Kubectl("get_status", TRUE, FALSE))
          /\ UNCHANGED <<clock, polls>>
          /\ Exit(1, "fatal", "RemoteCallFailure")
    /\ UNCHANGED <<kind, args, manifest, cleaned_manifest, new_pv_size,
                   current_pods, confirm, files, present, cluster_pods,
                   churns, stdout, start_time,
                   results>>

\* line 187
PollSleep ==
    /\ pc = "poll_sleep"
    /\ clock' = clock + PollInterval
    /\ Continue("poll_check")
    /\ UNCHANGED <<kind, args, manifest, cleaned_manifest, new_pv_size,
                   current_pods, confirm, files, calls, present, cluster_pods,
                   churns, stdout, start_time, polls,
                   results>>

(* ---- sts_resizer.py: main ---- *)

\* line 228, get_statefulset_manifest
GetStatefulsetManifest ==
    /\ pc = "fetch" /\ kind = "sts"
    /\ \/ /\ present
          /\ \E m \in StsManifests :
                /\ calls' = Append(calls, Kubectl("get", TRUE, TRUE) @@
                                          [body |-> YamlDump(m)])
                /\ manifest' = YamlLoad(YamlDump(m))
          /\ Continue("backup")
       \/ /\ calls' = Append(calls, Kubectl("get", TRUE, FALSE))
          /\ UNCHANGED manifest
          /\ Exit(1, "fatal", "RemoteCallFailure")
    /\ UNCHANGED <<kind, args, cleaned_manifest, new_pv_size, current_pods,
                   confirm, files, present, cluster_pods, churns, stdout,
                   clock, start_time, polls,
                   results>>

\* CreateBackup writing the cleaned manifest instead of the fetched one
CreateBackup_WritesCleaned ==
    /\ pc = "backup"
    /\ \/ /\ files' = Append(files, YamlDump(clean_manifest(manifest)))
          /\ Continue("clean")
       \/ /\ UNCHANGED files
          /\ Exit(1, "fatal", "OSError")
    /\ UNCHANGED <<kind, args, manifest, cleaned_manifest, new_pv_size,
                   current_pods, confirm, calls, present, cluster_pods,
                   churns, stdout, clock, start_time, polls,
                   results>>

\* line 231, create_backup: the file is written, or open()/dump raise
CreateBackup ==
    /\ pc = "backup"
    /\ \/ /\ files' = Append(files, YamlDump(manifest))
          /\ Continue("clean")
       \/ /\ UNCHANGED files
          /\ Exit(1, "fatal", "OSError")
    /\ UNCHANGED <<kind, args, manifest, cleaned_manifest, new_pv_size,
                   current_pods, confirm, calls, present, cluster_pods,
                   churns, stdout, clock, start_time, polls,
                   results>>

\* line 234
CleanManifest ==
    /\ pc = "clean"
    /\ cleaned_manifest' = clean_manifest(manifest)
    /\ Continue("pods")
    /\ UNCHANGED <<kind, args, manifest, new_pv_size, current_pods, confirm,
                   files, calls, present, cluster_pods, churns, stdout, clock,
                   start_time, polls,
                   results>>

\* line 237, get_current_pods
GetCurrentPods ==
    /\ pc = "pods"
    /\ \/ /\ calls' = Append(calls, Kubectl("get_pods", TRUE, TRUE) @@
                                    [body |-> cluster_pods])
          /\ current_pods' = cluster_pods
          /\ Continue("size")
       \/ /\ calls' = Append(calls, Kubectl("get_pods", TRUE, FALSE))
          /\ UNCHANGED current_pods
          /\ Exit(1, "fatal", "RemoteCallFailure")
    /\ UNCHANGED <<kind, args, manifest, cleaned_manifest, new_pv_size,
                   confirm, files, present, cluster_pods, churns, stdout,
                   clock, start_time, polls,
                   results>>

\* lines 240-245: the size from the command line, else from the prompt
AskPvSize ==
    /\ pc = "size"
    /\ IF Truthy(args.new_pv_size)
       THEN /\ new_pv_size' = args.new_pv_size
            /\ Continue("resize")
       ELSE \/ \E answer \in SizeAnswers :
                 /\ new_pv_size' = IF Strip(answer) # <<>>
                                   THEN Some(Strip(answer))
                                   ELSE None
                 /\ Continue("resize")
            \/ \* input() meets end of file
               /\ UNCHANGED new_pv_size
               /\ Exit(1, "fatal", "EOFError")
    /\ UNCHANGED <<kind, args, manifest, cleaned_manifest, current_pods,
                   confirm, files, calls, present, cluster_pods, churns,
                   stdout, clock, start_time, polls,
                   results>>

\* UpdatePvSize going on to the confirmation whether or not --dry-run is set
UpdatePvSize_IgnoresDryRun ==
    /\ pc = "resize"
    /\ cleaned_manifest' =
          IF Truthy(new_pv_size)
          THEN update_persistent_volume_size(cleaned_manifest, new_pv_size.val)
          ELSE cleaned_manifest
    /\ stdout' = [stdout EXCEPT
                     !.manifests = Append(@, YamlDump(cleaned_manifest'))]
    /\ Continue("confirm")
    /\ UNCHANGED <<kind, args, manifest, new_pv_size, current_pods, confirm,
                   files, calls, present, cluster_pods, churns, clock,
                   start_time, polls,
                   results>>

\* lines 248-253
UpdatePvSize ==
    /\ pc = "resize"
    /\ cleaned_manifest' =
          IF Truthy(new_pv_size)
          THEN update_persistent_volume_size(cleaned_manifest, new_pv_size.val)
          ELSE cleaned_manifest
    /\ stdout' = [stdout EXCEPT
                     !.manifests = Append(@, YamlDump(cleaned_manifest'))]
    /\ Continue(IF args.dry_run THEN "dry_run" ELSE "confirm")
    /\ UNCHANGED <<kind, args, manifest, new_pv_size, current_pods, confirm,
                   files, calls, present, cluster_pods, churns, clock,
                   start_time, polls,
                   results>>

\* lines 255-264
StsDryRun ==
    /\ pc = "dry_run" /\ kind = "sts"
    /\ stdout' = [stdout EXCEPT !.pods = Append(@, current_pods)]
    /\ Exit(0, "dry_run", "")
    /\ UNCHANGED <<kind, args, manifest, cleaned_manifest, new_pv_size,
                   current_pods, confirm, files, calls, present, cluster_pods,
                   churns, clock, start_time, polls,
                   results>>

\* Confirm taking the answer y for yes as well
Confirm_AcceptsY ==
    /\ pc = "confirm"
    /\ \/ \E answer \in ConfirmAnswers :
            /\ confirm' = Some(Lower(Strip(answer)))
            /\ IF confirm'.val \notin {Yes, <<"y">>}
               THEN Exit(0, "cancelled", "")
               ELSE Continue("delete")
       \/ \* input() meets end of file
          /\ UNCHANGED confirm
          /\ Exit(1, "fatal", "EOFError")
    /\ UNCHANGED <<kind, args, manifest, cleaned_manifest, new_pv_size,
                   current_pods, files, calls, present, cluster_pods, churns,
                   stdout, clock, start_time, polls,
                   results>>

\* lines 267-273
Confirm ==
    /\ pc = "confirm"
    /\ \/ \E answer \in ConfirmAnswers :
            /\ confirm' = Some(Lower(Strip(answer)))
            /\ IF confirm'.val # Yes
               THEN Exit(0, "cancelled", "")
               ELSE Continue("delete")
       \/ \* input() meets end of file
          /\ UNCHANGED confirm
          /\ Exit(1, "fatal", "EOFError")
    /\ UNCHANGED <<kind, args, manifest, cleaned_manifest, new_pv_size,
                   current_pods, files, calls, present, cluster_pods, churns,
                   stdout, clock, start_time, polls,
                   results>>

\* DeleteStatefulsetNonCascading without --cascade=false
DeleteStatefulset_Cascading ==
    /\ pc = "delete" /\ kind = "sts"
    /\ IF args.dry_run
       THEN /\ UNCHANGED <<calls, present>>
            /\ Continue("apply")
       ELSE \/ /\ present
               /\ calls' = Append(calls, Kubectl("delete", TRUE, TRUE))
               /\ present' = FALSE
               /\ Continue("apply")
            \/ /\ calls' = Append(calls, Kubectl("delete", TRUE, FALSE))
               /\ UNCHANGED present
               /\ Exit(1, "fatal", "RemoteCallFailure")
    /\ UNCHANGED <<kind, args, manifest, cleaned_manifest, new_pv_size,
                   current_pods, confirm, files, cluster_pods, churns, stdout,
                   clock, start_time, polls,
                   results>>

\* line 276, delete_statefulset_non_cascading: --cascade=false, pods stay
DeleteStatefulsetNonCascading ==
    /\ pc = "delete" /\ kind = "sts"
    /\ IF args.dry_run
       THEN /\ UNCHANGED <<calls, present>>
            /\ Continue("apply")
       ELSE \/ /\ present
               /\ calls' = Append(calls, Kubectl("delete", FALSE, TRUE))
               /\ present' = FALSE
               /\ Continue("apply")
            \/ /\ calls' = Append(calls, Kubectl("delete", FALSE, FALSE))
               /\ UNCHANGED present
               /\ Exit(1, "fatal", "RemoteCallFailure")
    /\ UNCHANGED <<kind, args, manifest, cleaned_manifest, new_pv_size,
                   current_pods, confirm, files, cluster_pods, churns, stdout,
                   clock, start_time, polls,
                   results>>

\* ApplyStatefulsetManifest reporting success although kubectl apply failed
ApplyStatefulsetManifest_SwallowsFailure ==
    /\ pc = "apply" /\ kind = "sts"
    /\ \/ /\ calls' = Append(calls, Kubectl("apply", TRUE, TRUE) @@
                                    [body |-> YamlDump(cleaned_manifest)])
          /\ present' = TRUE
          /\ stdout' = [stdout EXCEPT !.pods = Append(@, current_pods)]
          /\ Exit(0, "success", "")
       \/ /\ calls' = Append(calls, Kubectl("apply", TRUE, FALSE) @@
                                    [body |-> YamlDump(cleaned_manifest)])
          /\ UNCHANGED present
          /\ stdout' = [stdout EXCEPT !.pods = Append(@, current_pods)]
          /\ Exit(0, "success", "")
       \/ /\ UNCHANGED <<calls, present, stdout>>
          /\ Exit(1, "fatal", "OSError")
    /\ UNCHANGED <<kind, args, manifest, cleaned_manifest, new_pv_size,
                   current_pods, confirm, files, cluster_pods, churns, clock,
                   start_time, polls,
                   results>>

\* lines 279-285, apply_statefulset_manifest and the final report
ApplyStatefulsetManifest ==
    /\ pc = "apply" /\ kind = "sts"
    /\ \/ /\ calls' = Append(calls, Kubectl("apply", TRUE, TRUE) @@
                                    [body |-> YamlDump(cleaned_manifest)])
          /\ present' = TRUE
          /\ stdout' = [stdout EXCEPT !.pods = Append(@, current_pods)]
          /\ Exit(0, "success", "")
       \/ /\ calls' = Append(calls, Kubectl("apply", TRUE, FALSE) @@
                                    [body |-> YamlDump(cleaned_manifest)])
          /\ UNCHANGED <<present, stdout>>
          /\ Exit(1, "fatal", "RemoteCallFailure")
       \/ \* the temporary file cannot be written: no kubectl run
          /\ UNCHANGED <<calls, present, stdout>>
          /\ Exit(1, "fatal", "OSError")
    /\ UNCHANGED <<kind, args, manifest, cleaned_manifest, new_pv_size,
                   current_pods, confirm, files, cluster_pods, churns, clock,
                   start_time, polls,
                   results>>

(* ---- the cluster ---- *)

\* the pods of the StatefulSet come and go while the run is in progress
PodChurn ==
    /\ kind = "sts"
    /\ pc # "done"
    /\ churns < MaxChurn
    /\ churns' = churns + 1
    /\ cluster_pods' \in PodLists \ {cluster_pods}
    /\ UNCHANGED <<kind, args, pc, exit_code, outcome, error, manifest,
                   cleaned_manifest, new_pv_size, current_pods, confirm,
                   files, calls, present, stdout, clock, start_time, polls,
                   results>>

Next ==
    \/ ValidateArgs
    \/ GetJobManifest
    \/ UpdateJobManifest
    \/ JobDryRun
    \/ DeleteJob
    \/ ApplyJobManifest
    \/ StartMonitor
    \/ PollCheck
    \/ PollRead
    \/ PollSleep
    \/ GetStatefulsetManifest
    \/ CreateBackup
    \/ CleanManifest
    \/ GetCurrentPods
    \/ AskPvSize
    \/ UpdatePvSize
    \/ StsDryRun
    \/ Confirm
    \/ DeleteStatefulsetNonCascading
    \/ ApplyStatefulsetManifest
    \/ PodChurn

Spec == Init /\ [][Next]_vars

\* check_job_status runs on: a blocking read returns and a sleep ends
FairSpec ==
    Spec /\ WF_vars(StartMonitor \/ PollCheck \/ PollRead \/ PollSleep)

----------------------------------------------------------------------------
(* The transforms on their own: applied once and again to generated manifests *)

\* all sequences over S of length at most n
SeqsUpTo(S, n) == UNION {[1..k -> S] : k \in 0..n}

Images ==
    SeqsUpTo({"r", ":"}, MaxImageLen) \cup {ImgV1, Img, Img \o LatestTag}

OldValues ==
    SeqsUpTo({"a", "b", " ", "\t"}, MaxValueLen) \cup {<<"1", " ", "2">>}

NewValues == {<<"a">>, <<"b">>, <<"c">>, <<"3">>, <<"b", " ", "c">>}

\* the env key of a container: absent, or a sequence of entries
NoEnv == [has |-> FALSE, env |-> <<>>]
Env(e) == [has |-> TRUE, env |-> e]

EnvVar(n, v) == [name |-> n, value |-> v]

EnvConfigs ==
    {NoEnv, Env(<<>>), Env(<<EnvVar(<<"Y">>, <<"k">>)>>),
     Env(<<[name |-> <<"X">>, valueFrom |-> "secret"]>>),
     Env(<<EnvVar(<<"X">>, <<"a">>), EnvVar(<<"X">>, <<"b", " ", "c">>)>>)}
    \cup {Env(<<EnvVar(<<"X">>, v)>>) : v \in OldValues}
    \cup {Env(<<EnvVar(<<"Y">>, <<"k">>), EnvVar(<<"X">>, v),
                EnvVar(<<"W">>, <<"a", " ", "b">>)>>) : v \in OldValues}

Container(image, e) ==
    IF e.has
    THEN [name |-> "main", image |-> image, env |-> e.env]
    ELSE [name |-> "main", image |-> image]

ServerKeys == {"creationTimestamp", "resourceVersion", "uid", "generation",
               "managedFields", "labels"}

ServerValue(k) ==
    CASE k = "name" -> "obj"
      [] k = "creationTimestamp" -> "t0"
      [] k = "resourceVersion" -> "42"
      [] k = "uid" -> "u-1"
      [] k = "generation" -> 1
      [] k = "managedFields" -> <<[manager |-> "kubectl"]>>
      [] k = "labels" -> [app |-> "obj"]

AnnotationKeys == {LastApplied, Revision, ChangeCause, "team"}

\* a metadata mapping: a name, some server keys, annotations absent (has = FALSE)
\* or holding the keys ann
Metadata(ks, has, ann) ==
    LET base == [k \in ks \cup {"name"} |-> ServerValue(k)]
    IN  IF has
        THEN [k \in DOMAIN base \cup {"annotations"} |->
                 IF k = "annotations" THEN [a \in ann |-> "v"] ELSE base[k]]
        ELSE base

Metadatas ==
    {Metadata(ks, FALSE, {}) : ks \in SUBSET ServerKeys}
    \cup {Metadata(ks, TRUE, ann) :
             ks \in SUBSET ServerKeys, ann \in SUBSET AnnotationKeys}

FullMetadata == Metadata(ServerKeys, TRUE, AnnotationKeys)

JobWith(image, e, metadata, template_metadata) ==
    [apiVersion |-> "batch/v1", kind |-> "Job",
     metadata |-> metadata,
     spec |->
        [backoffLimit |-> 3,
         selector |-> [matchLabels |-> [uid |-> "u-1"]],
         template |->
            [metadata |-> template_metadata,
             spec |->
                [restartPolicy |-> "Never",
                 containers |->
                    << Container(image, e),
                       [name |-> "side", image |-> ImgV1,
                        env |-> <<EnvVar(<<"X">>, <<"9">>)>>] >>]]],
     status |-> [succeeded |-> 1]]

DefaultEnv == Env(<<EnvVar(<<"X">>, <<"1", " ", "2">>)>>)

\* Jobs that differ in the first container
JobContainerInputs ==
    {JobWith(i, DefaultEnv, FullMetadata, FullMetadata) : i \in Images}
    \cup {JobWith(ImgV1, e, FullMetadata, FullMetadata) : e \in EnvConfigs}
    \cup {JobFull, JobBare, JobNoTemplateMetadata}

\* Jobs that differ in the metadata mappings
JobMetadataInputs ==
    {JobWith(ImgV1, DefaultEnv, md, FullMetadata) : md \in Metadatas}
    \cup {JobWith(ImgV1, DefaultEnv, FullMetadata, md) : md \in Metadatas}
    \cup {JobFull, JobBare, JobNoTemplateMetadata}

MirrorKeys == {"currentReplicas", "updatedReplicas", "readyReplicas",
               "availableReplicas", "observedGeneration", "collisionCount",
               "conditions"}

\* volume claim templates with and without a storage request
ClaimTemplates ==
    {Claim(<<"1", "G", "i">>), Claim(<<"5", "G", "i">>),
     [metadata |-> [name |-> "data"],
      spec |-> [resources |-> [requests |-> [cpu |-> "1"]]]],
     [metadata |-> [name |-> "data"],
      spec |-> [accessModes |-> <<"ReadWriteOnce">>]]}

StsWith(metadata, template_metadata, mirror, templates) ==
    [apiVersion |-> "apps/v1", kind |-> "StatefulSet",
     metadata |-> metadata,
     spec |->
        [k \in {"replicas", "selector", "template", "volumeClaimTemplates"}
               \cup mirror |->
            CASE k = "replicas" -> 2
              [] k = "selector" -> [matchLabels |-> [app |-> "db"]]
              [] k = "template" ->
                    [metadata |-> template_metadata,
                     spec |->
                        [containers |->
                            << [name |-> "main", image |-> ImgV1] >>,
                         volumes |->
                            << [name |-> "ext",
                                persistentVolumeClaim |->
                                    [claimName |-> "shared"]] >>]]
              [] k = "volumeClaimTemplates" -> templates
              [] OTHER -> 0],
     status |-> [readyReplicas |-> 2]]

DefaultTemplates == <<Claim(<<"1", "G", "i">>), Claim(<<"5", "G", "i">>)>>

\* StatefulSets that differ in the metadata mappings and the mirror keys
StsMetadataInputs ==
    {StsWith(md, FullMetadata, {"currentReplicas"}, DefaultTemplates) :
        md \in Metadatas}
    \cup {StsWith(FullMetadata, md, {"currentReplicas"}, DefaultTemplates) :
             md \in Metadatas}
    \cup {StsWith(FullMetadata, FullMetadata, mirror, DefaultTemplates) :
             mirror \in SUBSET MirrorKeys}
    \cup StsManifests

\* StatefulSets that differ in the volume claim templates
StsTemplateInputs ==
    {StsWith(FullMetadata, FullMetadata, MirrorKeys, ts) :
        ts \in SeqsUpTo(ClaimTemplates, MaxTemplates)}
    \cup StsManifests

NewSizes == {NewSize, <<"1", "G", "i">>}

\* the manifest the next application works on
Current == IF results = <<>> THEN manifest ELSE results[Len(results)].m

MayApply ==
    /\ Len(results) < 2
    /\ results # <<>> => results[Len(results)].err = ""

Returned(m) == [err |-> "", m |-> m]

\* sts_resizer.py lines 131 and 158: the call returns the resized copy (m) and
\* leaves the mapping it was given (arg) as it was
ResizeCall(m, new_size) ==
    [err |-> "", m |-> update_persistent_volume_size(m, new_size), arg |-> m]

PureInit ==
    /\ kind \in {"job", "sts"}
    /\ pc \in {"sanitize", "pipeline", "resize"}
    /\ pc = "resize" => kind = "sts"
    /\ manifest \in
          CASE pc = "sanitize" /\ kind = "job" -> JobMetadataInputs
            [] pc = "sanitize" /\ kind = "sts" -> StsMetadataInputs
            [] pc = "pipeline" /\ kind = "job" -> JobContainerInputs
            [] OTHER -> StsTemplateInputs
    /\ args \in
          CASE pc = "sanitize" ->
                  [dry_run : {TRUE}, env_var_name : {None},
                   env_var_value : {None}, monitor : {FALSE}, timeout : {0},
                   new_pv_size : {None}]
            [] pc = "pipeline" /\ kind = "job" ->
                  [dry_run : {TRUE},
                   env_var_name : {None, Some(<<"X">>), Some(<<"Z">>)},
                   env_var_value : {None} \cup {Some(v) : v \in NewValues},
                   monitor : {FALSE}, timeout : {0}, new_pv_size : {None}]
            [] pc = "pipeline" /\ kind = "sts" ->
                  [dry_run : {TRUE}, env_var_name : {None},
                   env_var_value : {None}, monitor : {FALSE}, timeout : {0},
                   new_pv_size : {None} \cup {Some(z) : z \in NewSizes}]
            [] OTHER ->
                  [dry_run : {TRUE}, env_var_name : {None},
                   env_var_value : {None}, monitor : {FALSE}, timeout : {0},
                   new_pv_size : {Some(z) : z \in NewSizes}]
    /\ exit_code = NotExited
    /\ outcome = "running"
    /\ error = ""
    /\ cleaned_manifest = EmptyDict
    /\ new_pv_size = None
    /\ current_pods = <<>>
    /\ confirm = None
    /\ files = <<>>
    /\ calls = <<>>
    /\ present = TRUE
    /\ cluster_pods = <<>>
    /\ churns = 0
    /\ stdout = [manifests |-> <<>>, pods |-> <<>>]
    /\ clock = 0
    /\ start_time = 0
    /\ polls = [reads |-> 0, last |-> EmptyDict, result |-> "none", at |-> 0]
    /\ results = <<>>

PureFrame ==
    UNCHANGED <<kind, args, pc, exit_code, outcome, error, manifest,
                cleaned_manifest, new_pv_size, current_pods, confirm, files,
                calls, present, cluster_pods, churns, stdout, clock,
                start_time, polls>>

\* rerun_job.py lines 107-130 alone
ApplyJobCleanup ==
    /\ pc = "sanitize" /\ kind = "job" /\ MayApply
    /\ results' = Append(results, JobCleanup(Current))
    /\ PureFrame

\* sts_resizer.py clean_manifest alone
ApplyCleanManifest ==
    /\ pc = "sanitize" /\ kind = "sts" /\ MayApply
    /\ results' = Append(results, Returned(clean_manifest(Current)))
    /\ PureFrame

\* rerun_job.py update_job_manifest
ApplyUpdateJobManifest ==
    /\ pc = "pipeline" /\ kind = "job" /\ MayApply
    /\ results' = Append(results,
                         update_job_manifest(Current, args.env_var_name,
                                             args.env_var_value))
    /\ PureFrame

\* sts_resizer.py lines 234 and 248-249: clean, then resize when a size is given
ApplyCleanAndResize ==
    /\ pc = "pipeline" /\ kind = "sts" /\ MayApply
    /\ results' = Append(results, Returned(
          IF Truthy(args.new_pv_size)
          THEN update_persistent_volume_size(clean_manifest(Current),
                                             args.new_pv_size.val)
          ELSE clean_manifest(Current)))
    /\ PureFrame

\* sts_resizer.py update_persistent_volume_size alone
ApplyUpdatePersistentVolumeSize ==
    /\ pc = "resize" /\ MayApply
    /\ results' = Append(results,
          ResizeCall(Current, args.new_pv_size.val))
    /\ PureFrame

PureNext ==
    \/ ApplyJobCleanup
    \/ ApplyCleanManifest
    \/ ApplyUpdateJobManifest
    \/ ApplyCleanAndResize
    \/ ApplyUpdatePersistentVolumeSize

PureSpec == PureInit /\ [][PureNext]_vars

----------------------------------------------------------------------------
(* Properties *)

\* the positions in calls of the invocations of one kubectl operation
CallsOf(op) == {i \in 1..Len(calls) : calls[i].op = op}

Mutations == CallsOf("delete") \cup CallsOf("apply")

\* C1 as stated: when dry-run is requested, a run of either kind issues no
\* remote call after the initial fetch and ends in the terminal success state.
C1_DryRunNoCallAfterFetch ==
    args.dry_run =>
        /\ Len(calls) <= 1
        /\ (pc = "done" /\ error = "" => outcome = "dry_run" /\ exit_code = 0)

\* C1 amended: when dry-run is requested, no delete, apply or status read is
\* ever issued; a job run issues no remote call after the fetch; a replica-set
\* run issues exactly one more remote call, the pod listing; and the run ends
\* in the dry-run success state with exit status 0 unless a step failed,
\* in which case it ends fatally with exit status 1.
C1_DryRunOnlyReads ==
    args.dry_run =>
        /\ Mutations = {} /\ CallsOf("get_status") = {}
        /\ calls # <<>> => calls[1].op = "get"
        /\ kind = "job" => Len(calls) <= 1
        /\ kind = "sts" =>
              /\ Len(calls) <= 2
              /\ Len(calls) = 2 => calls[2].op = "get_pods"
              /\ outcome = "dry_run" => Len(calls) = 2
        /\ pc = "done" =>
              IF error = ""
              THEN outcome = "dry_run" /\ exit_code = 0
              ELSE outcome = "fatal" /\ exit_code = 1

C1_Witness ==
    /\ args.dry_run /\ kind = "sts"
    /\ outcome = "dry_run" /\ exit_code = 0
    /\ Len(calls) = 2 /\ calls[2].op = "get_pods" /\ calls[2].ok

\* C2: in a replica-set run that is not a dry run, an answer that is not yes
\* (after trimming and lower-casing) ends the run as a clean cancellation
\* with no delete and no apply, and a delete is issued only once the answer
\* yes has been given.
C2_ConfirmationGate ==
    kind = "sts" /\ ~args.dry_run =>
        /\ confirm.given /\ confirm.val # Yes =>
              /\ pc = "done" /\ outcome = "cancelled" /\ exit_code = 0
              /\ Mutations = {}
        /\ Mutations # {} => confirm = Some(Yes)
        /\ pc \in {"delete", "apply"} => confirm = Some(Yes)

C2_Witness ==
    /\ kind = "sts" /\ ~args.dry_run
    /\ confirm = Some(<<"n", "o">>)
    /\ outcome = "cancelled"
    /\ Len(calls) = 2

\* C3: a replica-set run whose fetch succeeded writes the backup exactly once,
\* holding the manifest as fetched, before any delete or apply; if the write
\* fails the run aborts without delete or apply; a job run writes no backup.
C3_BackupOnceBeforeMutation ==
    /\ kind = "job" => files = <<>>
    /\ kind = "sts" =>
          /\ Len(files) <= 1
          /\ files # <<>> =>
                /\ calls[1].op = "get" /\ calls[1].ok
                /\ files[1] = calls[1].body
          /\ pc \notin {"fetch", "backup", "done"} => Len(files) = 1
          /\ Mutations # {} => Len(files) = 1
          /\ (pc = "done" /\ calls # <<>> /\ calls[1].ok /\ files = <<>>) =>
                /\ outcome = "fatal" /\ exit_code = 1 /\ error = "OSError"
                /\ Len(calls) = 1

C3_Witness ==
    /\ kind = "sts"
    /\ Len(files) = 1 /\ files[1] = YamlDump(StsFull)
    /\ YamlDump(cleaned_manifest) # files[1]
    /\ CallsOf("delete") # {} /\ CallsOf("apply") # {}

\* C4: for both kinds, a failed initial fetch ends the run fatally with a
\* non-zero exit status; the fetch is not retried and nothing else is done:
\* no backup, no pod listing, no delete, no apply, no status read.
C4_FetchFailureIsFatal ==
    (calls # <<>> /\ ~calls[1].ok) =>
        /\ calls[1].op = "get"
        /\ Len(calls) = 1
        /\ pc = "done" /\ outcome = "fatal" /\ exit_code = 1
        /\ error = "RemoteCallFailure"
        /\ files = <<>>
        /\ stdout.manifests = <<>>

C4_Witness ==
    /\ Len(calls) = 1 /\ calls[1].op = "get" /\ ~calls[1].ok
    /\ pc = "done" /\ exit_code = 1

\* the order of the lifecycle states
Rank(p) ==
    CASE p = "validate" -> 0
      [] p = "fetch" -> 1
      [] p = "backup" -> 2
      [] p \in {"clean", "update"} -> 3
      [] p = "pods" -> 4
      [] p = "size" -> 5
      [] p = "resize" -> 6
      [] p \in {"dry_run", "confirm"} -> 7
      [] p = "delete" -> 8
      [] p = "apply" -> 9
      [] p = "monitor" -> 10
      [] p \in {"poll_check", "poll_read", "poll_sleep"} -> 11
      [] p = "done" -> 12

Polling == {"monitor", "poll_check", "poll_read", "poll_sleep"}

\* the manifest the run holds is the transform of the manifest it fetched
Transformed ==
    IF kind = "job"
    THEN update_job_manifest(YamlLoad(calls[1].body), args.env_var_name,
                             args.env_var_value) = [err |-> "", m |-> manifest]
    ELSE cleaned_manifest =
            IF Truthy(new_pv_size)
            THEN update_persistent_volume_size(
                     clean_manifest(YamlLoad(calls[1].body)), new_pv_size.val)
            ELSE clean_manifest(YamlLoad(calls[1].body))

\* C5: the lifecycle only moves forward and repeats nothing but the polling
\* loop; a delete is issued only after a successful fetch and transform, an
\* apply only right after a successful delete, and status polling only after
\* a successful apply, in a job run with monitoring requested.
C5_LinearLifecycle ==
    /\ [](/\ \A i \in CallsOf("delete") :
                /\ i > 1 /\ calls[1].op = "get" /\ calls[1].ok
                /\ Transformed
                /\ ~calls[i].ok => i = Len(calls) /\ pc = "done"
          /\ \A i \in CallsOf("apply") :
                i > 1 /\ calls[i - 1].op = "delete" /\ calls[i - 1].ok
          /\ (pc \in Polling \/ CallsOf("get_status") # {}) =>
                /\ kind = "job" /\ args.monitor
                /\ \E j \in CallsOf("apply") :
                      calls[j].ok /\ \A i \in CallsOf("get_status") : j < i)
    /\ [][/\ Rank(pc') >= Rank(pc)
          /\ Rank(pc') = Rank(pc) => pc' = pc \/ pc \in Polling]_vars

C5_Witness ==
    /\ kind = "job" /\ pc = "done"
    /\ Len(calls) >= 5
    /\ calls[2].op = "delete" /\ calls[3].op = "apply"
    /\ calls[5].op = "get_status"

\* C6: for both kinds, a failed apply after the successful delete ends the run
\* fatally with the resource absent and nothing issued after it; no run issues
\* more than one delete or more than one apply.
C6_ApplyFailureLeavesAbsent ==
    /\ Cardinality(CallsOf("delete")) <= 1
    /\ Cardinality(CallsOf("apply")) <= 1
    /\ \A i \in CallsOf("apply") :
          ~calls[i].ok =>
              /\ i = Len(calls)
              /\ calls[i - 1].op = "delete" /\ calls[i - 1].ok
              /\ pc = "done" /\ outcome = "fatal" /\ exit_code = 1
              /\ ~present

C6_Witness ==
    /\ pc = "done" /\ exit_code = 1 /\ ~present
    /\ Len(calls) = 3 /\ calls[3].op = "apply" /\ ~calls[3].ok

\* C7: every delete of a replica-set run has cascade disabled, every delete
\* of a job run cascades; the pod names a replica-set run captured before the
\* delete are the ones it reports at the end, read once and never re-read.
C7_CascadeAndPodList ==
    /\ \A i \in CallsOf("delete") : calls[i].cascade = (kind = "job")
    /\ Cardinality(CallsOf("get_pods")) <= 1
    /\ \A i \in CallsOf("get_pods") :
          /\ \A j \in CallsOf("delete") : i < j
          /\ calls[i].ok => current_pods = calls[i].body
          /\ \A k \in 1..Len(stdout.pods) : stdout.pods[k] = calls[i].body
    /\ stdout.pods # <<>> => CallsOf("get_pods") # {}

C7_Witness ==
    /\ kind = "sts" /\ outcome = "success"
    /\ \E i \in CallsOf("delete") : calls[i].ok /\ ~calls[i].cascade
    /\ stdout.pods = <<current_pods>>
    /\ cluster_pods # current_pods

\* C8: a job run given exactly one of a non-empty env-var name and a
\* non-empty env-var value fails fatally before any remote call, the fetch
\* included, and never runs the transform.
C8_EnvPairValidated ==
    (kind = "job"
     /\ Truthy(args.env_var_name) # Truthy(args.env_var_value)) =>
        /\ calls = <<>>
        /\ manifest = EmptyDict
        /\ pc \in {"validate", "done"}
        /\ pc = "done" =>
              /\ outcome = "fatal" /\ exit_code = 1
              /\ error = "InvalidArguments"

C8_Witness ==
    /\ kind = "job" /\ pc = "done" /\ error = "InvalidArguments"
    /\ ~args.env_var_name.given /\ Truthy(args.env_var_value)

\* the fetched manifest has an empty spec.template.spec.containers
EmptyContainersFetched ==
    /\ calls # <<>> /\ calls[1].ok
    /\ YamlLoad(calls[1].body).spec.template.spec.containers = <<>>

\* C9 as stated: for both kinds, an empty container list makes sanitizing
\* fail and the run abort fatally before any delete or apply.
C9_EmptyContainersAbortBothKinds ==
    EmptyContainersFetched =>
        /\ Mutations = {}
        /\ pc \in {"update", "backup", "clean", "done"}
        /\ pc = "done" => outcome = "fatal" /\ exit_code = 1

\* C9 amended: for the job kind, an empty container list makes the transform
\* fail with the malformed-manifest error and the run abort fatally before any
\* delete or apply; a replica-set run never fails with that error.
C9_JobEmptyContainersAbort ==
    /\ (kind = "job" /\ EmptyContainersFetched) =>
          /\ Len(calls) = 1
          /\ pc \in {"update", "done"}
          /\ pc = "done" =>
                /\ outcome = "fatal" /\ exit_code = 1
                /\ error = "ValueError"
    /\ kind = "sts" => error # "ValueError"

C9_Witness ==
    /\ kind = "job" /\ EmptyContainersFetched
    /\ pc = "done" /\ error = "ValueError" /\ exit_code = 1

\* C10: the poller makes one status read per iteration and stops at the first
\* terminal read: succeeded > 0 ends it as Completed, otherwise failed > 0
\* ends it as Failed, neither keeps it polling; nothing is read after a
\* terminal classification.
C10_PollerStopsAtTerminalRead ==
    /\ [](LET succeeded == Get0(polls.last, "succeeded")
              failed == Get0(polls.last, "failed")
          IN  /\ polls.reads = Cardinality({i \in CallsOf("get_status") :
                                               calls[i].ok})
              /\ succeeded > 0 => polls.result = "Completed"
              /\ (failed > 0 /\ succeeded = 0) => polls.result = "Failed"
              /\ (succeeded = 0 /\ failed = 0) =>
                    polls.result \in {"none", "Inconclusive"}
              /\ polls.result \in {"Completed", "Failed"} =>
                    /\ pc = "done" /\ exit_code = 0
                    /\ calls[Len(calls)].op = "get_status"
              /\ (polls.reads > 0 /\ polls.result = "none") =>
                    \/ pc \in {"poll_sleep", "poll_check", "poll_read"}
                    \/ pc = "done" /\ error = "RemoteCallFailure")
    /\ [][(Len(calls') > Len(calls) /\ calls'[Len(calls')].op = "get_status")
              => /\ pc = "poll_read" /\ pc' \in {"poll_sleep", "done"}
                 /\ Len(calls') = Len(calls) + 1
                 /\ polls.result = "none"]_vars
    /\ [][pc = "poll_sleep" => pc' \in {"poll_sleep", "poll_check"}]_vars

\* the reads {0,0,0} then {1,0,0}: Completed at the second read
C10_Witness ==
    /\ polls.reads = 2 /\ polls.result = "Completed"
    /\ polls.last = [succeeded |-> 1, failed |-> 0, active |-> 0]
    /\ pc = "done" /\ exit_code = 0

\* C11: the poller always terminates; when no read is terminal it ends, once
\* the elapsed time has reached the timeout, as Inconclusive with exit status
\* 0 and no error; consecutive reads are at least the 10-second interval
\* apart, so their number is bounded by the timeout, and a timeout of zero
\* yields no status read.
C11_PollerTerminates ==
    /\ [](/\ polls.result = "Inconclusive" =>
                /\ pc = "done" /\ exit_code = 0 /\ error = ""
                /\ outcome = "success"
                /\ clock - start_time >= args.timeout * 60
          /\ (pc = "done" /\ error = "" /\ args.monitor
              /\ \E i \in CallsOf("apply") : calls[i].ok) =>
                polls.result \in {"Completed", "Failed", "Inconclusive"}
          /\ args.timeout = 0 => CallsOf("get_status") = {}
          /\ polls.reads > 0 =>
                (polls.reads - 1) * PollInterval < args.timeout * 60)
    /\ [][(Len(calls') > Len(calls) /\ calls'[Len(calls')].op = "get_status"
           /\ polls.reads > 0) => clock - polls.at >= PollInterval]_vars
    /\ (pc \in Polling ~> pc = "done")

C11_Witness ==
    /\ pc = "done" /\ polls.result = "Inconclusive" /\ exit_code = 0
    /\ args.timeout = 1 /\ polls.reads >= 2
    /\ clock - start_time >= 60

----------------------------------------------------------------------------
(* Properties of the transforms *)

\* C12: sanitizing a sanitized descriptor again returns it unchanged, for the
\* Job clean-up and for clean_manifest alike
C12_SanitizeIdempotent ==
    (pc = "sanitize" /\ Len(results) = 2) =>
        /\ results[2].err = ""
        /\ results[2].m = results[1].m

\* a StatefulSet whose annotations held only server keys, sanitized twice
C12_Witness ==
    /\ pc = "sanitize" /\ kind = "sts" /\ Len(results) = 2
    /\ Has(manifest.metadata, "annotations")
    /\ DOMAIN manifest.metadata.annotations = {LastApplied}
    /\ ~Has(results[1].m.metadata, "annotations")
    /\ results[2].m = results[1].m

\* a sanitizer has returned normally
Sanitized == pc = "sanitize" /\ Len(results) >= 1 /\ results[1].err = ""

TemplateMetadata(m) ==
    IF Has(m, "spec") /\ Has(m.spec, "template")
       /\ Has(m.spec.template, "metadata")
    THEN m.spec.template.metadata
    ELSE EmptyDict

\* C13 as stated: after sanitize, for both kinds, neither metadata mapping
\* holds any of the six server keys, there is no status and no spec.selector,
\* and a StatefulSet spec holds none of the status-mirroring keys
C13_SanitizeRemovesSameKeysBothKinds ==
    Sanitized =>
        LET m == results[1].m
        IN  /\ DOMAIN m.metadata \cap ServerKeys = {}
            /\ DOMAIN TemplateMetadata(m) \cap ServerKeys = {}
            /\ ~Has(m, "status")
            /\ ~Has(m.spec, "selector")
            /\ kind = "sts" => DOMAIN m.spec \cap MirrorKeys = {}

JobTopKeys ==
    {"creationTimestamp", "resourceVersion", "uid", "generation", "labels"}

StsMetadataKeys ==
    {"creationTimestamp", "resourceVersion", "uid", "generation",
     "managedFields"}

\* C13: what each sanitizer removes.  Job: five keys of the top-level metadata
\* (managedFields stays), labels alone of the template metadata, spec.selector
\* and status.  StatefulSet: five keys of both metadata mappings (labels stay),
\* the status-mirroring spec keys and status; spec.selector stays.
C13_SanitizeRemovesPerKind ==
    Sanitized =>
        LET m == results[1].m
        IN  /\ ~Has(m, "status")
            /\ kind = "job" =>
                 /\ DOMAIN m.metadata = DOMAIN manifest.metadata \ JobTopKeys
                 /\ DOMAIN TemplateMetadata(m) =
                       DOMAIN TemplateMetadata(manifest) \ {"labels"}
                 /\ DOMAIN m.spec = DOMAIN manifest.spec \ {"selector"}
            /\ kind = "sts" =>
                 /\ DOMAIN m.metadata \ {"annotations"} =
                       DOMAIN manifest.metadata
                          \ (StsMetadataKeys \cup {"annotations"})
                 /\ DOMAIN TemplateMetadata(m) \ {"annotations"} =
                       DOMAIN TemplateMetadata(manifest)
                          \ (StsMetadataKeys \cup {"annotations"})
                 /\ DOMAIN m.spec = DOMAIN manifest.spec \ MirrorKeys

\* a sanitized Job that had every server key in both metadata mappings
C13_Witness ==
    /\ Sanitized /\ kind = "job"
    /\ ServerKeys \subseteq DOMAIN manifest.metadata
    /\ ServerKeys \subseteq DOMAIN manifest.spec.template.metadata
    /\ DOMAIN results[1].m.metadata \cap ServerKeys = {"managedFields"}
    /\ DOMAIN results[1].m.spec.template.metadata \cap ServerKeys =
          ServerKeys \ {"labels"}

\* the pipeline of either kind has returned normally
Piped == pc = "pipeline" /\ Len(results) >= 1 /\ results[1].err = ""

EnvRequested == Truthy(args.env_var_name) /\ Truthy(args.env_var_value)

HasStorage(template) ==
    /\ Has(template, "spec")
    /\ Has(template.spec, "resources")
    /\ Has(template.spec.resources, "requests")
    /\ Has(template.spec.resources.requests, "storage")

\* a metadata mapping without the keys a sanitizer is documented to remove
EraseMetadata(metadata) ==
    LET md == [k \in DOMAIN metadata \ ServerKeys |-> metadata[k]]
    IN  IF Has(md, "annotations")
        THEN LET annotations ==
                    PopAll(md.annotations, <<LastApplied, Revision, ChangeCause>>)
             IN  IF DOMAIN annotations = {} THEN Pop(md, "annotations")
                 ELSE [md EXCEPT !.annotations = annotations]
        ELSE md

\* a pod template without its removable metadata and, for a Job, without the
\* image and env of its first container
EraseTemplate(template, k) ==
    LET t1 == IF Has(template, "metadata")
              THEN [template EXCEPT !.metadata = EraseMetadata(@)]
              ELSE template
    IN  IF k = "job" /\ Has(t1, "spec") /\ Has(t1.spec, "containers")
           /\ t1.spec.containers # <<>>
        THEN [t1 EXCEPT !.spec.containers[1] = PopAll(@, <<"image", "env">>)]
        ELSE t1

EraseSpec(spec, k) ==
    LET s1 == [x \in DOMAIN spec \ ({"selector"} \cup
                    IF k = "sts" THEN MirrorKeys ELSE {}) |-> spec[x]]
        s2 == IF Has(s1, "template")
              THEN [s1 EXCEPT !.template = EraseTemplate(@, k)]
              ELSE s1
    IN  IF k = "sts" /\ Has(s2, "volumeClaimTemplates")
        THEN [s2 EXCEPT !.volumeClaimTemplates =
                 [i \in 1..Len(@) |->
                     IF HasStorage(@[i])
                     THEN [@[i] EXCEPT !.spec.resources.requests =
                              Pop(@, "storage")]
                     ELSE @[i]]]
        ELSE s2

\* a descriptor of kind k without the fields the pipeline may remove or set
Erase(m, k) ==
    LET m1 == Pop(m, "status")
        m2 == IF Has(m1, "metadata")
              THEN [m1 EXCEPT !.metadata = EraseMetadata(@)]
              ELSE m1
    IN  IF Has(m2, "spec") THEN [m2 EXCEPT !.spec = EraseSpec(@, k)] ELSE m2

\* C14: the pipeline changes nothing but the documented removals and the
\* requested mutation: the container list stays, containers after the first
\* are as they were, env is untouched without an env pair and changes in one
\* entry with one, and only storage requests that exist are rewritten
C14_PipelineFrame ==
    /\ Sanitized =>
          /\ Erase(results[1].m, kind) = Erase(manifest, kind)
          /\ results[1].m.spec.template.spec = manifest.spec.template.spec
    /\ Piped =>
        LET x == manifest
            m == results[1].m
        IN  /\ Erase(m, kind) = Erase(x, kind)
            /\ HasContainers(x) =>
                 /\ HasContainers(m)
                 /\ Len(m.spec.template.spec.containers) =
                       Len(x.spec.template.spec.containers)
            /\ (kind = "sts" /\ HasContainers(x)) =>
                 m.spec.template.spec = x.spec.template.spec
            /\ kind = "job" =>
                 LET c == x.spec.template.spec.containers[1]
                     d == m.spec.template.spec.containers[1]
                 IN  /\ Has(d, "image")
                     /\ Has(d, "env") <=> Has(c, "env")
                     /\ (~EnvRequested /\ Has(c, "env")) => d.env = c.env
                     /\ (EnvRequested /\ Has(c, "env")) =>
                          LET i == FindEnvVar(c.env, args.env_var_name.val)
                          IN  /\ Len(d.env) = Len(c.env) + (IF i = 0 THEN 1 ELSE 0)
                              /\ \A j \in 1..Len(c.env) :
                                    j # i => d.env[j] = c.env[j]
                              /\ i # 0 => d.env[i].name = c.env[i].name
            /\ (kind = "sts" /\ Has(x.spec, "volumeClaimTemplates")) =>
                 /\ Len(m.spec.volumeClaimTemplates) =
                       Len(x.spec.volumeClaimTemplates)
                 /\ \A i \in 1..Len(x.spec.volumeClaimTemplates) :
                       HasStorage(m.spec.volumeClaimTemplates[i])
                          <=> HasStorage(x.spec.volumeClaimTemplates[i])
                 /\ ~Truthy(args.new_pv_size) =>
                       m.spec.volumeClaimTemplates = x.spec.volumeClaimTemplates

\* a Job with two containers piped with an env pair: the first container's env
\* changed, the second container did not
C14_Witness ==
    /\ Piped /\ kind = "job" /\ EnvRequested
    /\ Len(manifest.spec.template.spec.containers) = 2
    /\ Has(manifest.spec.template.spec.containers[1], "env")
    /\ results[1].m.spec.template.spec.containers[1].env #
          manifest.spec.template.spec.containers[1].env
    /\ results[1].m.spec.template.spec.containers[2] =
          manifest.spec.template.spec.containers[2]
    /\ results[1].m # manifest

\* the first container of a Job descriptor
First(m) == m.spec.template.spec.containers[1]

\* update_job_manifest got as far as the image assignment
ImageSet(x) ==
    /\ HasContainers(x)
    /\ x.spec.template.spec.containers # <<>>
    /\ Has(First(x), "image")

\* the characters of s before its first colon, all of s when it has none
BeforeFirstColon(s) ==
    SubSeq(s, 1, IF InStr(":", s)
                 THEN (CHOOSE i \in 1..Len(s) :
                          /\ s[i] = ":"
                          /\ \A j \in 1..(i - 1) : s[j] # ":") - 1
                 ELSE Len(s))

\* C15: the first container's image becomes what stood before its first colon
\* (all of it when there is none) followed by :latest, so img:v1 and img both
\* become img:latest, and a second application leaves the image as it is
C15_ImageTagLatest ==
    (pc = "pipeline" /\ kind = "job" /\ Len(results) >= 1
     /\ ImageSet(manifest)) =>
        /\ First(results[1].m).image =
              BeforeFirstColon(First(manifest).image) \o LatestTag
        /\ First(manifest).image \in {ImgV1, Img, Img \o LatestTag} =>
              First(results[1].m).image = Img \o LatestTag
        /\ Len(results) = 2 =>
              First(results[2].m).image = First(results[1].m).image

\* an image with two colons, mutated twice
C15_Witness ==
    /\ pc = "pipeline" /\ kind = "job" /\ Len(results) = 2
    /\ First(manifest).image = <<"r", ":", ":">>
    /\ First(results[1].m).image = <<"r">> \o LatestTag
    /\ First(results[2].m).image = <<"r">> \o LatestTag

\* update_job_manifest was called with an env pair on a Job whose first
\* container has an image
Upserted ==
    /\ pc = "pipeline" /\ kind = "job" /\ Len(results) >= 1
    /\ ImageSet(manifest) /\ EnvRequested

\* the env sequence of a container, empty when the key is absent
EnvOf(container) == IF Has(container, "env") THEN container.env ELSE <<>>

\* C16: an upsert with a name no entry of the first container has appends the
\* pair {name, value}: one entry more, the others as they were, and a
\* container without an env sequence gets one holding just that pair
C16_UpsertAbsentAppends ==
    (Upserted /\ FindEnvVar(EnvOf(First(manifest)), args.env_var_name.val) = 0) =>
        /\ results[1].err = ""
        /\ Has(First(results[1].m), "env")
        /\ First(results[1].m).env =
              Append(EnvOf(First(manifest)),
                     [name |-> args.env_var_name.val,
                      value |-> args.env_var_value.val])

HasWhitespace(s) == \E i \in 1..Len(s) : s[i] \in Whitespace

\* index of the entry the upsert found in the first container, 0 when none
Found == FindEnvVar(EnvOf(First(manifest)), args.env_var_name.val)

\* the upsert found an entry that has a value
UpsertedExisting ==
    /\ Upserted /\ Found # 0
    /\ Has(First(manifest).env[Found], "value")

OldValue == First(manifest).env[Found].value

\* what a union-add of value v into the token string old gives
UnionAdd(old, v) ==
    IF InList(v, Split(old)) THEN old ELSE old \o <<" ">> \o v

\* C17 as stated: on an entry whose value contains any whitespace character
\* the upsert is a union-add, and applying it a second time changes nothing
C17_UnionAddOnWhitespace ==
    (UpsertedExisting /\ HasWhitespace(OldValue)) =>
        /\ results[1].err = ""
        /\ Len(First(results[1].m).env) = Len(First(manifest).env)
        /\ First(results[1].m).env[Found].value =
              UnionAdd(OldValue, args.env_var_value.val)
        /\ Len(results) = 2 =>
              First(results[2].m).env = First(results[1].m).env

\* C17: on an entry whose value contains a space the upsert is a union-add
\* that keeps the env length, and applying it a second time changes nothing
\* when the new value is a single token (holds no whitespace)
C17_UnionAddOnSpace ==
    (UpsertedExisting /\ InStr(" ", OldValue)) =>
        /\ results[1].err = ""
        /\ Len(First(results[1].m).env) = Len(First(manifest).env)
        /\ First(results[1].m).env[Found].value =
              UnionAdd(OldValue, args.env_var_value.val)
        /\ (Len(results) = 2 /\ ~HasWhitespace(args.env_var_value.val)) =>
              /\ results[2].err = ""
              /\ First(results[2].m).env = First(results[1].m).env

\* "a b" upserted with "c" twice: "a b c" both times
C17_Witness ==
    /\ UpsertedExisting /\ Len(results) = 2
    /\ OldValue = <<"a", " ", "b">>
    /\ args.env_var_value.val = <<"c">>
    /\ First(results[1].m).env[Found].value = <<"a", " ", "b", " ", "c">>
    /\ First(results[2].m).env[Found].value = <<"a", " ", "b", " ", "c">>

\* C18: on an entry whose value holds no whitespace the upsert puts the new
\* value in place of the old one; the env keeps its length and every other
\* entry, and the entry keeps its name
C18_ScalarReplaced ==
    (UpsertedExisting /\ ~HasWhitespace(OldValue)) =>
        /\ results[1].err = ""
        /\ First(results[1].m).env =
              [j \in 1..Len(First(manifest).env) |->
                  IF j = Found
                  THEN [name |-> args.env_var_name.val,
                        value |-> args.env_var_value.val]
                  ELSE First(manifest).env[j]]

\* "a" between two other entries upserted with "b"
C18_Witness ==
    /\ UpsertedExisting /\ Found = 2
    /\ Len(First(manifest).env) = 3
    /\ OldValue = <<"a">>
    /\ args.env_var_value.val = <<"b">>
    /\ First(results[1].m).env[2].value = <<"b">>
    /\ First(results[1].m).env[3] = First(manifest).env[3]

Resized == pc = "resize" /\ Len(results) >= 1

Templates(m) ==
    IF Has(m, "spec") /\ Has(m.spec, "volumeClaimTemplates")
    THEN m.spec.volumeClaimTemplates
    ELSE <<>>

\* C19: after the volume-size mutator every storage request among the volume
\* claim templates is the new size as given; there are as many templates as
\* before and each is otherwise as it was (none gains a request), the mapping
\* passed in is not modified, and the pod template with its inline volumes is
\* as it was
C19_AllStorageRequestsResized ==
    Resized =>
        LET x == manifest
            r == results[1]
        IN  /\ r.arg = x
            /\ Len(Templates(r.m)) = Len(Templates(x))
            /\ Has(r.m.spec, "volumeClaimTemplates")
                  <=> Has(x.spec, "volumeClaimTemplates")
            /\ \A i \in 1..Len(Templates(x)) :
                  IF HasStorage(Templates(x)[i])
                  THEN /\ HasStorage(Templates(r.m)[i])
                       /\ Templates(r.m)[i].spec.resources.requests.storage =
                             args.new_pv_size.val
                  ELSE Templates(r.m)[i] = Templates(x)[i]
            /\ Erase(r.m, "sts") = Erase(x, "sts")
            /\ Has(x.spec, "template") =>
                  r.m.spec.template = x.spec.template

\* two templates of 1Gi and 5Gi and an inline claim reference, resized to 2Gi
C19_Witness ==
    /\ Resized
    /\ args.new_pv_size.val = NewSize
    /\ Templates(manifest) = DefaultTemplates
    /\ Templates(results[1].m) = <<Claim(NewSize), Claim(NewSize)>>
    /\ Has(manifest.spec.template.spec.volumes[1], "persistentVolumeClaim")
    /\ results[1].m.spec.template.spec.volumes =
          manifest.spec.template.spec.volumes

----------------------------------------------------------------------------
(* The job dry run end to end *)

\* the keys of every mapping of a Job descriptor down to its containers
KeysAnywhere(m) ==
    LET md == IF Has(m, "metadata") THEN m.metadata ELSE EmptyDict
        sp == IF Has(m, "spec") THEN m.spec ELSE EmptyDict
        tp == IF Has(sp, "template") THEN sp.template ELSE EmptyDict
        ps == IF Has(tp, "spec") THEN tp.spec ELSE EmptyDict
        cs == IF Has(ps, "containers") THEN ps.containers ELSE <<>>
    IN  DOMAIN m \cup DOMAIN md \cup DOMAIN sp \cup DOMAIN tp \cup DOMAIN ps
        \cup DOMAIN TemplateMetadata(m)
        \cup (IF Has(md, "annotations") THEN DOMAIN md.annotations ELSE {})
        \cup (IF Has(sp, "selector") THEN DOMAIN sp.selector.matchLabels ELSE {})
        \cup UNION {DOMAIN cs[i] : i \in 1..Len(cs)}

\* a job dry run that fetched img:v1 with env X="1 2", asked for X=3, and ended
DryRunOfExample ==
    /\ kind = "job" /\ args.dry_run /\ pc = "done"
    /\ args.env_var_name = Some(<<"X">>) /\ args.env_var_value = Some(<<"3">>)
    /\ calls # <<>> /\ calls[1].ok
    /\ ImageSet(YamlLoad(calls[1].body))
    /\ LET c == First(YamlLoad(calls[1].body))
       IN  /\ c.image = ImgV1
           /\ Has(c, "env")
           /\ c.env = <<EnvVar(<<"X">>, <<"1", " ", "2">>)>>

\* the descriptor the dry run printed
Output == YamlLoad(stdout.manifests[Len(stdout.manifests)])

\* C20 as stated: the dry run prints a descriptor with image img:latest and
\* env X="1 2 3" that has no status, resourceVersion, uid or creationTimestamp
\* key anywhere, and issues no delete and no apply
C20_DryRunOutputNoServerKeysAnywhere ==
    DryRunOfExample =>
        /\ outcome = "dry_run" /\ exit_code = 0
        /\ Len(stdout.manifests) = 1
        /\ First(Output).image = Img \o LatestTag
        /\ First(Output).env = <<EnvVar(<<"X">>, <<"1", " ", "2", " ", "3">>)>>
        /\ KeysAnywhere(Output) \cap
              {"status", "resourceVersion", "uid", "creationTimestamp"} = {}
        /\ CallsOf("delete") = {} /\ CallsOf("apply") = {}

\* C20: the dry run prints a descriptor with image img:latest and env
\* X="1 2 3" that has no top-level status and no resourceVersion, uid or
\* creationTimestamp in its top-level metadata, and issues no delete and no
\* apply
C20_DryRunOutputNoTopLevelServerKeys ==
    DryRunOfExample =>
        /\ outcome = "dry_run" /\ exit_code = 0
        /\ Len(stdout.manifests) = 1
        /\ First(Output).image = Img \o LatestTag
        /\ First(Output).env = <<EnvVar(<<"X">>, <<"1", " ", "2", " ", "3">>)>>
        /\ ~Has(Output, "status")
        /\ DOMAIN Output.metadata \cap
              {"resourceVersion", "uid", "creationTimestamp"} = {}
        /\ CallsOf("delete") = {} /\ CallsOf("apply") = {}

\* the example dry run has ended, its output still holding the pod template's
\* creationTimestamp
C20_Witness ==
    /\ DryRunOfExample /\ outcome = "dry_run"
    /\ Has(YamlLoad(calls[1].body), "status")
    /\ Has(YamlLoad(calls[1].body).metadata, "uid")
    /\ Has(Output.spec.template.metadata, "creationTimestamp")
    /\ Len(calls) = 1

----------------------------------------------------------------------------
(* Exit status *)

FailedCalls == {i \in 1..Len(calls) : ~calls[i].ok}

\* the run deleted and recreated the object
Recreated ==
    /\ \E i \in CallsOf("delete") : calls[i].ok
    /\ calls[Len(calls)].op \in {"apply", "get_status"}
    /\ \E i \in CallsOf("apply") : calls[i].ok

\* C21: a run that has ended has exit status 0 exactly when it ended in
\* success (recreated, dry run reported, poller outcome reached) or in a
\* cancellation at the prompt, and status 1 exactly when an error occurred: a
\* failed remote call, a file that could not be written, a malformed manifest
\* or invalid arguments
C21_ExitStatus ==
    /\ pc # "done" => exit_code = NotExited
    /\ pc = "done" =>
          /\ exit_code \in {0, 1}
          /\ exit_code = 0 <=> outcome \in {"success", "dry_run", "cancelled"}
          /\ exit_code = 1 <=> error # ""
          /\ exit_code = 1 <=> outcome = "fatal"
          /\ FailedCalls # {} =>
                /\ exit_code = 1
                /\ FailedCalls = {Len(calls)}
          /\ calls = <<>> => exit_code = 1 /\ error = "InvalidArguments"
          /\ outcome = "success" =>
                /\ ~args.dry_run /\ Recreated /\ FailedCalls = {}
                /\ (kind = "job" /\ args.monitor) =>
                      polls.result \in {"Completed", "Failed", "Inconclusive"}
          /\ outcome = "dry_run" =>
                args.dry_run /\ Mutations = {} /\ FailedCalls = {}
          /\ outcome = "cancelled" =>
                /\ kind = "sts" /\ ~args.dry_run /\ Mutations = {}
                /\ confirm.given /\ confirm.val # Yes
          /\ (kind = "job" /\ ~(Truthy(args.env_var_name)
                                   <=> Truthy(args.env_var_value))) =>
                exit_code = 1
          /\ (kind = "sts" /\ files = <<>>) => exit_code = 1

\* a monitored job run whose poller read Failed ends with exit status 0
C21_Witness ==
    /\ pc = "done" /\ kind = "job" /\ args.monitor
    /\ polls.result = "Failed"
    /\ exit_code = 0 /\ outcome = "success" /\ error = ""
    /\ Recreated

----------------------------------------------------------------------------
(* Annotations *)

ServerAnnotations == {LastApplied, Revision, ChangeCause}

TopMetadata(m) == IF Has(m, "metadata") THEN m.metadata ELSE EmptyDict

\* the metadata mapping after, set against the one before: the three server
\* annotations are gone, the others are as they were, and the annotations
\* mapping itself is gone when nothing is left in it
AnnotationsCleaned(before, after) ==
    IF Has(before, "annotations")
    THEN LET rest == DOMAIN before.annotations \ ServerAnnotations
         IN  IF rest = {}
             THEN ~Has(after, "annotations")
             ELSE /\ Has(after, "annotations")
                  /\ after.annotations = [k \in rest |-> before.annotations[k]]
    ELSE ~Has(after, "annotations")

\* C22 as stated: for both kinds sanitize cleans the annotations of the
\* top-level metadata and of the pod template metadata and removes a mapping
\* it leaves empty
C22_AnnotationsCleanedBothKinds ==
    Sanitized =>
        /\ AnnotationsCleaned(TopMetadata(manifest), TopMetadata(results[1].m))
        /\ AnnotationsCleaned(TemplateMetadata(manifest),
                              TemplateMetadata(results[1].m))

\* C22: the StatefulSet sanitizer cleans the annotations at both locations and
\* removes a mapping it leaves empty; the Job sanitizer removes only the
\* last-applied-configuration annotation of the top-level metadata, keeps that
\* mapping even when empty, and leaves the pod template's annotations alone
C22_AnnotationsCleanedPerKind ==
    Sanitized =>
        LET x == manifest
            m == results[1].m
        IN  /\ kind = "sts" =>
                 /\ AnnotationsCleaned(TopMetadata(x), TopMetadata(m))
                 /\ AnnotationsCleaned(TemplateMetadata(x), TemplateMetadata(m))
            /\ kind = "job" =>
                 /\ Has(m.metadata, "annotations")
                       <=> Has(x.metadata, "annotations")
                 /\ Has(x.metadata, "annotations") =>
                       m.metadata.annotations =
                          Pop(x.metadata.annotations, LastApplied)
                 /\ Has(TemplateMetadata(m), "annotations")
                       <=> Has(TemplateMetadata(x), "annotations")
                 /\ Has(TemplateMetadata(x), "annotations") =>
                       TemplateMetadata(m).annotations =
                          TemplateMetadata(x).annotations

\* a StatefulSet whose pod template held only the three server annotations
\* and whose top-level metadata held one more
C22_Witness ==
    /\ Sanitized /\ kind = "sts"
    /\ Has(TemplateMetadata(manifest), "annotations")
    /\ DOMAIN TemplateMetadata(manifest).annotations = ServerAnnotations
    /\ ~Has(TemplateMetadata(results[1].m), "annotations")
    /\ DOMAIN manifest.metadata.annotations = AnnotationKeys
    /\ DOMAIN results[1].m.metadata.annotations = {"team"}

----------------------------------------------------------------------------
(* A status read with both counts positive *)

\* the last status read reported succeeded > 0 and failed > 0
ReadBoth ==
    /\ polls.reads > 0
    /\ Get0(polls.last, "succeeded") > 0
    /\ Get0(polls.last, "failed") > 0

\* C23: a status read that reports succeeded > 0 and failed > 0 is classified
\* Completed, never Failed, and ends the poller: the run is over with exit
\* status 0 and that read stays the last call
C23_SuccessTakesPriority ==
    /\ [](ReadBoth =>
             /\ polls.result = "Completed"
             /\ pc = "done" /\ exit_code = 0 /\ outcome = "success"
             /\ calls[Len(calls)].op = "get_status"
             /\ calls[Len(calls)].ok)
    /\ [][ReadBoth => (calls' = calls /\ polls' = polls /\ pc' = pc)]_vars

\* a first read of succeeded 0, failed 0, then one of succeeded 1, failed 1
C23_Witness ==
    /\ ReadBoth /\ polls.reads = 2
    /\ polls.last.succeeded = 1 /\ polls.last.failed = 1
    /\ polls.result = "Completed"
    /\ pc = "done" /\ exit_code = 0

====
